---- MODULE Spec2Model ----
(***************************************************************************)
(* Model of the prompt-optimizer API routes:                               *)
(*   app/api/langsmith-prompts/route.ts  (optimization pipeline, streamed)  *)
(*   app/api/braintrust-eval/route.ts    (multi-dimension pipeline,         *)
(*                                        streamed)                         *)
(*   app/api/llm-judge/route.ts          (blind judge, plain HTTP)          *)
(*   unnamed/part_000                    (Dataset Tests, plain HTTP)        *)
(*                                                                         *)
(* One behaviour is one invocation of one route.  A step is the code that  *)
(* runs between two suspension points on an external call; the answer of   *)
(* the external service is the nondeterministic input of the step.          *)
(*                                                                         *)
(* Texts are sequences of tokens.  The tokens "[", "]", "{", "}" are the    *)
(* characters the extraction patterns look for, "w" is prose, and a token   *)
(* such as "tc:a" or "v:pass" stands for a well-formed JSON fragment        *)
(* whose value is given by TestCaseOf / VerdictOf / ProposalOf.             *)
(*                                                                         *)
(* The stream writer is assumed to accept every write (the consumer does    *)
(* not cancel the response body).                                           *)
(***************************************************************************)
EXTENDS Integers, Sequences, FiniteSets, TLC

\* ------------------------------------------------------------------ bounds

\* Largest number of elements in the array a generator response carries.
MaxCases == 2

\* Largest number of off-nominal answers (provider failure, unparsable text,
\* out-of-contract JSON) the external services give during one invocation.
MaxFaults == 2

\* Largest number of records in a response body handed to the page reader.
MaxRecords == 3

\* Largest number of pieces of text one reader.read() returns.
MaxChunk == 7

\* ------------------------------------------------------------- route names

LS == "langsmith-prompts"
BT == "braintrust-eval"
LJ == "llm-judge"
PT == "prompt-test"

Streaming == {LS, BT}
Routes == {LS, BT, LJ, PT}

\* ------------------------------------------------------------------ texts

\* The placeholder token of a prompt template.
PH == "{{input}}"

\* Scores are kept in hundredths: 1 is 100, 0.25 is 25.
One == 100
\* score of a verdict object that has no score field (undefined)
Undef == -1
\* the pass threshold of the multi-dimension pipeline, 0.8
PassThreshold == 80

Last(seq) == seq[Len(seq)]

RECURSIVE Flatten(_)
Flatten(ss) == IF ss = <<>> THEN <<>> ELSE Head(ss) \o Flatten(Tail(ss))

\* What String.prototype.replace substitutes for one match when the
\* replacement is the string `input`: "$$" inserts "$", "$&" inserts the
\* matched text, every other token is copied.
Replacement(input) ==
    [k \in DOMAIN input |->
        IF input[k] = "$$" THEN "$"
        ELSE IF input[k] = "$&" THEN PH
        ELSE input[k]]

\* prompt.replace(/\{\{input\}\}/g, input): one pass over the template.
Render(template, input) ==
    Flatten([k \in DOMAIN template |->
        IF template[k] = PH THEN Replacement(input) ELSE <<template[k]>>])

\* text.match(/\[[\s\S]*\]/) and text.match(/\{[\s\S]*\}/): greedy, from the
\* first opening token to the last closing token after it.
Match(text, open, close) ==
    LET os == {i \in DOMAIN text : text[i] = open}
        first == IF os = {} THEN 0 ELSE CHOOSE i \in os : \A j \in os : i <= j
        cs == {i \in DOMAIN text : text[i] = close /\ i > first}
        last == IF cs = {} THEN 0 ELSE CHOOSE i \in cs : \A j \in cs : i >= j
    IN  IF first = 0 \/ last = 0
        THEN [found |-> FALSE, span |-> <<>>]
        ELSE [found |-> TRUE, span |-> SubSeq(text, first, last)]

Structural == {"[", "]", "{", "}", "w"}

\* JSON.parse of a span: it succeeds when the span is an opening token, JSON
\* fragments only, and the matching closing token; prose or a stray bracket
\* inside makes it throw.
JsonParse(span, open, close) ==
    LET n == Len(span)
        inner == IF n >= 2 THEN SubSeq(span, 2, n - 1) ELSE <<>>
    IN  IF /\ n >= 2
           /\ span[1] = open
           /\ span[n] = close
           /\ \A k \in DOMAIN inner : inner[k] \notin Structural
        THEN [ok |-> TRUE, val |-> inner]
        ELSE [ok |-> FALSE, val |-> <<>>]

\* ----------------------------------------------------- values of fragments

\* A parsed generator element.  "tc:x" is an object that has no `input`;
\* the input of "tc:b" holds the character pairs "$$" and "$&".
TestCaseOf(tok) ==
    [hasInput |-> tok # "tc:x",
     input |-> IF tok = "tc:a" THEN <<"2+2?">>
               ELSE IF tok = "tc:b" THEN <<"3+3?", "$$", "$&">>
               ELSE IF tok = "tc:c" THEN <<"4+4?">>
               ELSE <<>>,
     expectsJSON |-> tok = "tc:b",
     expectedTone |-> tok = "tc:b"]

\* A parsed judge verdict of the rubric variant.
VerdictOf(body) ==
    IF body = <<"v:pass">> THEN [score |-> One, reason |-> "", allPassed |-> TRUE]
    ELSE IF body = <<"v:fail">> THEN [score |-> 0, reason |-> "judge", allPassed |-> FALSE]
    ELSE IF body = <<"v:half">> THEN [score |-> 50, reason |-> "judge", allPassed |-> FALSE]
    ELSE [score |-> Undef, reason |-> "", allPassed |-> FALSE]

\* A parsed optimizer proposal of the end-to-end pipeline.
ProposalOf(body) ==
    IF body = <<"p:full">>
    THEN [hasPrompt |-> TRUE, prompt |-> <<"Improved:", PH>>,
          reasoning |-> "patterns", hasChanges |-> TRUE, changes |-> <<"Change 1">>]
    ELSE IF body = <<"p:noprompt">>
    THEN [hasPrompt |-> FALSE, prompt |-> <<>>,
          reasoning |-> "patterns", hasChanges |-> TRUE, changes |-> <<"Change 1">>]
    ELSE [hasPrompt |-> FALSE, prompt |-> <<>>,
          reasoning |-> "", hasChanges |-> FALSE, changes |-> <<>>]

\* ---------------------------------------------- answers of the services

\* A provider call that throws (network error, non-2xx status, timeout).
Failure == [ok |-> FALSE, hasText |-> FALSE, text |-> <<>>]

\* A provider answer that carries no text block / no message content.
NoText == [ok |-> TRUE, hasText |-> FALSE, text |-> <<>>]

Answer(t) == [ok |-> TRUE, hasText |-> TRUE, text |-> t]

CaseTok(k) == IF k % 3 = 1 THEN "tc:a" ELSE IF k % 3 = 2 THEN "tc:b" ELSE "tc:c"

\* the arrays a generator answer can carry: every element with an input ...
GoodLists == {[k \in 1..n |-> CaseTok(k)] : n \in 0..MaxCases}
\* ... or the last element without one
BadLists == {[k \in 1..n |-> IF k = n THEN "tc:x" ELSE CaseTok(k)] : n \in 1..MaxCases}

Wrap(list) == <<"w", "[">> \o list \o <<"]", "w">>

GenNominal == {Answer(Wrap(l)) : l \in GoodLists}
GenAnswers ==
    GenNominal \cup {Answer(Wrap(l)) : l \in BadLists}
        \cup {Answer(<<"w">>), Answer(<<"[", "w", "]">>),
              Answer(<<"[", "tc:a", "]", "w", "]">>), NoText, Failure}

\* text completions of the prompt under test
ExecNominal(r) ==
    IF r = BT THEN {Answer(<<"w">>), Answer(<<"{", "o:data", "}">>)}
    ELSE {Answer(<<"4">>)}
ExecAnswers(r) == ExecNominal(r) \cup {NoText, Failure}

FallbackNominal == {Answer(<<"fallback text">>)}
FallbackAnswers == FallbackNominal \cup {NoText, Failure}

\* answers of the rubric judge (judgeWithClaude)
VerdictNominal == {Answer(<<"{", "v:pass", "}">>), Answer(<<"w", "{", "v:fail", "}">>)}
VerdictAnswers ==
    VerdictNominal \cup {Answer(<<"{", "v:half", "}">>), Answer(<<"w">>),
                         Answer(<<"{", "w", "}">>), NoText, Failure}

\* answers to a yes/no dimension question (scoreFactuality, scoreBattle, scoreTone)
YesNoNominal == {Answer(<<"1">>), Answer(<<"0">>)}
YesNoAnswers == YesNoNominal \cup {Answer(<<"w">>), Answer(<<"1", "w">>), NoText, Failure}

\* answers of the optimizer of the end-to-end pipeline (generateOptimizedPrompt)
ProposalNominal == {Answer(<<"{", "p:full", "}">>)}
ProposalAnswers ==
    ProposalNominal \cup {Answer(<<"{", "p:noprompt", "}">>), Answer(<<"w">>),
                          Answer(<<"{", "w", "}">>), NoText, Failure}

\* answers of the optimizer of the one-shot variant (getImprovedPrompts)
ImprovedNominal == {Answer(<<"[", "i:1", "i:2", "i:3", "i:4", "]">>)}
ImprovedAnswers ==
    ImprovedNominal \cup {Answer(<<"w">>), Answer(<<"[", "w", "]">>), NoText, Failure}

\* ------------------------------------------------------------------ state

VARIABLES
    route,       \* the route that handles the invocation
    req,         \* the request body
    env,         \* which credentials the process environment holds
    pc,          \* position of the handler
    logs,        \* the `logs` array of POST
    stream,      \* the records written to the response stream, in order
    closed,      \* how many times writer.close() has run
    calls,       \* the external calls made so far, in order
    faults,      \* off-nominal answers received so far
    testCases,   \* the parsed dataset
    idx,         \* test cases finished in the current run
    run,         \* 1: the prompt of the request, 2: the optimized prompt
    formatted,   \* formattedPrompt of the completion in progress
    output,      \* output of the completion in progress
    scores,      \* `scores` of evaluateTestCase while it is being filled
    results,     \* `results`
    optResults,  \* `optimizedResults`
    failed,      \* indices of `failedResults` / `failedTests`
    proposal,    \* optimizedPrompt, optimizationReasoning, changes
    improved,    \* improvedPrompts
    evaluation,  \* the evaluation object of the complete record / 200 response
    err,         \* the exception the catch block receives
    http,        \* status of the plain HTTP response, 0 while there is none
    tally,       \* passedTests, totalScore, passedAssertions, failedAssertions
    ui           \* the page that reads the stream: processingLogs, alerts, result,
                 \* `buffer`, and how much of the response body it has been given

vars == <<route, req, env, pc, logs, stream, closed, calls, faults, testCases,
          idx, run, formatted, output, scores, results, optResults, failed,
          proposal, improved, evaluation, err, http, tally, ui>>

\* the template of the request
Template == <<"Answer:", PH>>

\* prompt: undefined or "" (missing), a value that is no string, or a string
Prompts ==
    {[kind |-> "missing", text |-> <<>>],
     [kind |-> "nonstring", text |-> <<>>],
     [kind |-> "string", text |-> Template]}

\* The optimization pipeline reads prompt, goal, promptName and rubric; the
\* other routes read prompt only (and `dataset`, which always resolves).
Requests(r) ==
    IF r = LS
    THEN [prompt : Prompts, goal : BOOLEAN, promptName : BOOLEAN, rubric : BOOLEAN,
          dataset : {"general"}]
    ELSE [prompt : Prompts, goal : {FALSE}, promptName : {FALSE}, rubric : {FALSE},
          dataset : IF r = PT THEN {"general", "creative"} ELSE {"general"}]

\* GEMINI_API_KEY, LANGSMITH_API_KEY, ANTHROPIC_API_KEY, as far as the route
\* reads or uses them.
Envs(r) ==
    IF r = LS THEN [gemini : BOOLEAN, langsmith : BOOLEAN, anthropic : BOOLEAN]
    ELSE IF r = BT THEN [gemini : BOOLEAN, langsmith : {TRUE}, anthropic : BOOLEAN]
    ELSE IF r = PT THEN [gemini : {TRUE}, langsmith : BOOLEAN, anthropic : BOOLEAN]
    ELSE [gemini : {TRUE}, langsmith : {TRUE}, anthropic : BOOLEAN]

NoScores == [factuality |-> 0, battle |-> 0, jsonValidity |-> 0, tone |-> 0, overall |-> 0]
NoProposal == [prompt |-> <<>>, hasPrompt |-> FALSE, reasoning |-> "", changes |-> <<>>]
NoEvaluation == [sent |-> FALSE]
NoTally == [passedTests |-> 0, totalScore |-> 0, passedAssertions |-> 0, failedAssertions |-> 0]

\* the page when it starts to read the response: no log shown
\* (setProcessingLogs([])), no result, no alert
FreshPage ==
    [pc |-> "reading", read |-> 0, shown |-> <<>>, alerts |-> <<>>, result |-> FALSE,
     terminal |-> FALSE, after |-> 0, buffer |-> <<>>, fed |-> 0]

Init ==
    /\ route \in Routes
    /\ req \in Requests(route)
    /\ env \in Envs(route)
    /\ pc = "start"
    /\ logs = <<>>
    /\ stream = <<>>
    /\ closed = 0
    /\ calls = <<>>
    /\ faults = 0
    /\ testCases = <<>>
    /\ idx = 0
    /\ run = 1
    /\ formatted = <<>>
    /\ output = <<>>
    /\ scores = NoScores
    /\ results = <<>>
    /\ optResults = <<>>
    /\ failed = {}
    /\ proposal = NoProposal
    /\ improved = <<>>
    /\ evaluation = NoEvaluation
    /\ err = ""
    /\ http = 0
    /\ tally = NoTally
    /\ ui = FreshPage

\* ---------------------------------------------------------------- helpers

LogEntry(phase, i, status) == [phase |-> phase, i |-> i, status |-> status]
NoLog == LogEntry("", 0, "")

\* the three kinds of record of the event stream
\* (`details` is "" where the record has none)
LogRecord(l) ==
    [type |-> "log", log |-> l, error |-> "", details |-> "", hasLogs |-> FALSE, logs |-> <<>>]
ErrorRecord(msg, details) ==
    [type |-> "error", log |-> NoLog, error |-> msg, details |-> details,
     hasLogs |-> FALSE, logs |-> <<>>]
ErrorRecordWithLogs(msg, details, ls) ==
    [type |-> "error", log |-> NoLog, error |-> msg, details |-> details,
     hasLogs |-> TRUE, logs |-> ls]
CompleteRecord(ls) ==
    [type |-> "complete", log |-> NoLog, error |-> "", details |-> "", hasLogs |-> TRUE,
     logs |-> ls]

\* `timestamp: new Date().toISOString()`: the wall clock, read when the log
\* object is built.  Time passes while the handler waits for an external
\* service and the clock does not run backwards: the reading is the number
\* of external calls that have returned; entries made between two calls may
\* carry the same reading.
Stamp(ls) ==
    [k \in DOMAIN ls |->
        [phase |-> ls[k].phase, i |-> ls[k].i, status |-> ls[k].status,
         timestamp |-> Len(calls')]]

\* a sendLog that puts the new entries in front of the log (unshift)
sendLogInFront(ls) ==
    /\ logs' = Stamp(ls) \o logs
    /\ stream' = stream \o [k \in DOMAIN ls |-> LogRecord(Stamp(ls)[k])]

\* sendLog, once per entry of ls: push onto logs, write the log record.
sendLog(ls) ==
    /\ logs' = logs \o Stamp(ls)
    /\ stream' = stream \o [k \in DOMAIN ls |-> LogRecord(Stamp(ls)[k])]

\* sendLog for the entries of ls, then one more record written to the stream.
sendLogThenWrite(ls, rec) ==
    /\ logs' = logs \o Stamp(ls)
    /\ stream' = (stream \o [k \in DOMAIN ls |-> LogRecord(Stamp(ls)[k])]) \o <<rec>>

\* an exception that propagates to the catch block of POST
Throw(msg) == pc' = "catch" /\ err' = msg

\* the record of one external call; the answer's text is kept for the calls
\* whose text the caller parses or returns
Call(svc, op, arg, a) ==
    [svc |-> svc, op |-> op, run |-> run, idx |-> idx, arg |-> arg, ok |-> a.ok,
     text |-> IF op \in {"factuality", "battle", "tone", "createRun"} THEN <<>> ELSE a.text]

\* The answers a service may give now: only failures when its credential is
\* missing, and off-nominal answers only while the fault budget lasts.
Admitted(a, nominal, hasKey) ==
    IF ~hasKey THEN a = Failure ELSE a \in nominal \/ faults < MaxFaults

Counted(a, nominal) == faults' = IF a \in nominal THEN faults ELSE faults + 1

\* a validation that looks at the prompt only and accepts any truthy value
ValidRequestPromptOnly == req.prompt.kind # "missing"

\* `!prompt || typeof prompt !== "string"` and `!prompt || !goal || !promptName`
ValidRequest ==
    IF route = LS
    THEN req.prompt.kind # "missing" /\ req.goal /\ req.promptName
    ELSE req.prompt.kind = "string"

\* the credential checks of the streamed routes
MissingCredential ==
    IF route = LS THEN
        IF ~env.gemini THEN "Gemini API key not configured"
        ELSE IF ~env.langsmith THEN "LangSmith API key not configured"
        ELSE ""
    ELSE IF route = BT /\ ~env.gemini THEN "GEMINI_API_KEY not configured"
    ELSE ""

\* ------------------------------------------- streamed routes: validation

\* POST, missing required field: log, error record, close, return.
RejectRequest ==
    /\ pc = "start"
    /\ UNCHANGED calls
    /\ route \in Streaming
    /\ ~ValidRequest
    /\ sendLogThenWrite(<<LogEntry("Error", 0, "error")>>,
            ErrorRecord(IF route = LS THEN "Missing prompt, goal, or promptName"
                        ELSE "Prompt string is required", ""))
    /\ closed' = closed + 1
    /\ pc' = "done"
    /\ UNCHANGED <<ui, route, req, env, faults, testCases, idx, run, formatted,
                   output, scores, results, optResults, failed, proposal, improved,
                   evaluation, err, http, tally>>

\* POST, missing API key: log, error record, close, return.
RejectCredentials ==
    /\ pc = "start"
    /\ UNCHANGED calls
    /\ route \in Streaming
    /\ ValidRequest
    /\ MissingCredential # ""
    /\ sendLogThenWrite(<<LogEntry("Error", 0, "error")>>, ErrorRecord(MissingCredential,
                           IF route = LS THEN "Please add the key to your environment variables"
                           ELSE ""))
    /\ closed' = closed + 1
    /\ pc' = "done"
    /\ UNCHANGED <<ui, route, req, env, faults, testCases, idx, run, formatted,
                   output, scores, results, optResults, failed, proposal, improved,
                   evaluation, err, http, tally>>

\* POST, up to the call of generateSyntheticDataset.
BeginPipeline ==
    /\ pc = "start"
    /\ UNCHANGED calls
    /\ route \in Streaming
    /\ ValidRequest
    /\ MissingCredential = ""
    /\ sendLog(IF route = LS
               THEN <<LogEntry("Saving to Prompt Hub", 0, "running"),
                      LogEntry("Prompt saved", 0, "completed"),
                      LogEntry("Generating test dataset", 0, "running")>>
               ELSE <<LogEntry("Analyzing prompt", 0, "running"),
                      LogEntry("Generating synthetic dataset", 0, "running")>>)
    /\ pc' = "generate"
    /\ UNCHANGED <<ui, route, req, env, closed, faults, testCases, idx, run,
                   formatted, output, scores, results, optResults, failed, proposal,
                   improved, evaluation, err, http, tally>>

\* ------------------------------------------- streamed routes: generation

\* the number of test cases the instruction prompt of the generator asks for
RequestedCount(r) == IF r = LS THEN 2 ELSE 5

\* The array a generator answer yields: match the brackets, parse the span.
ParseDataset(a) ==
    LET text == IF a.hasText THEN a.text ELSE <<>>
        m == Match(text, "[", "]")
        p == JsonParse(m.span, "[", "]")
    IN  IF m.found /\ p.ok
        THEN [ok |-> TRUE, cases |-> [k \in DOMAIN p.val |-> TestCaseOf(p.val[k])]]
        ELSE [ok |-> FALSE, cases |-> <<>>]

\* POST, from the return of generateSyntheticDataset to the first test case.
DatasetReady(cases) ==
    /\ testCases' = cases
    /\ sendLog(IF route = LS
               THEN <<LogEntry("Dataset generated", 0, "completed"),
                      LogEntry("Running tests", 0, "running")>>
               ELSE <<LogEntry("Dataset generation complete", 0, "completed"),
                      LogEntry("Running evaluations", 0, "running")>>)
    /\ pc' = "loop"
    /\ err' = err

\* generateSyntheticDataset, the try block: the Gemini call.  In the
\* optimization pipeline the instruction prompt is built from rubric.map
\* before the try block, which throws when the request has no rubric.
GeneratePrimary ==
    /\ pc = "generate"
    /\ IF route = LS /\ ~req.rubric
       THEN /\ Throw("TypeError")
            /\ UNCHANGED <<logs, stream, calls, faults, testCases>>
       ELSE \E a \in GenAnswers :
            /\ Admitted(a, GenNominal, TRUE)
            /\ Counted(a, GenNominal)
            /\ calls' = Append(calls, Call("gemini", "generate", <<>>, a))
            /\ IF a.ok /\ ParseDataset(a).ok
               THEN DatasetReady(ParseDataset(a).cases)
               ELSE /\ pc' = "generate_fallback"
                    /\ UNCHANGED <<logs, stream, testCases, err>>
    /\ UNCHANGED <<ui, route, req, env, closed, idx, run, formatted, output, scores,
                   results, optResults, failed, proposal, improved, evaluation, http, tally>>

\* generateSyntheticDataset, the catch block: the Groq call.
GenerateFallback ==
    /\ pc = "generate_fallback"
    /\ \E a \in GenAnswers :
        /\ Admitted(a, GenNominal, TRUE)
        /\ Counted(a, GenNominal)
        /\ calls' = Append(calls, Call("groq", "generate", <<>>, a))
        /\ IF a.ok /\ ParseDataset(a).ok
           THEN DatasetReady(ParseDataset(a).cases)
           ELSE /\ Throw(IF ~a.ok THEN "provider error"
                         ELSE IF ~Match(IF a.hasText THEN a.text ELSE <<>>, "[", "]").found
                         THEN "Failed to generate test cases with both Gemini and Groq"
                         ELSE "SyntaxError")
                /\ UNCHANGED <<logs, stream, testCases>>
    /\ UNCHANGED <<ui, route, req, env, closed, idx, run, formatted, output, scores,
                   results, optResults, failed, proposal, improved, evaluation, http, tally>>

\* ------------------------------------------- streamed routes: the test loop

\* a second loop that runs the prompt of the request again
OptimizedTemplateStale == req.prompt.text

\* the template the second loop hands to executePromptWithGemini
OptimizedTemplate == proposal.prompt

\* The head of one loop iteration, up to the first provider call.
\* First run: the `running` log reads testCase.input.substring, which throws
\* for an element without input; then prompt.replace, which throws for a
\* prompt that is no string.  Second run (optimized prompt): no log, and
\* optimizedPrompt.replace throws when the proposal had no prompt.
NextTest ==
    /\ pc = "loop"
    /\ UNCHANGED calls
    /\ idx < Len(testCases)
    /\ LET tc == testCases[idx + 1]
           running == LogEntry(IF route = LS THEN "Test running" ELSE "Evaluating test",
                               idx + 1, "running")
       IN  IF run = 1
           THEN IF ~tc.hasInput
                THEN /\ Throw("TypeError")
                     /\ UNCHANGED <<logs, stream, formatted>>
                ELSE /\ sendLog(<<running>>)
                     /\ IF req.prompt.kind # "string"
                        THEN /\ Throw("TypeError")
                             /\ UNCHANGED formatted
                        ELSE /\ formatted' = Render(req.prompt.text, tc.input)
                             /\ pc' = "exec"
                             /\ UNCHANGED err
           ELSE /\ UNCHANGED <<logs, stream>>
                /\ IF ~proposal.hasPrompt
                   THEN /\ Throw("TypeError")
                        /\ UNCHANGED formatted
                   ELSE /\ formatted' = Render(OptimizedTemplate, tc.input)
                        /\ pc' = "exec"
                        /\ UNCHANGED err
    /\ UNCHANGED <<ui, route, req, env, closed, faults, testCases, idx, run, output,
                   scores, results, optResults, failed, proposal, improved, evaluation,
                   http, tally>>

\* executePromptWithGemini, the try block: the Gemini call.
ExecutePrimary ==
    /\ pc = "exec"
    /\ route = LS
    /\ \E a \in ExecAnswers(LS) :
        /\ Admitted(a, ExecNominal(LS), TRUE)
        /\ Counted(a, ExecNominal(LS))
        /\ calls' = Append(calls, Call("gemini", "complete", formatted, a))
        /\ IF a.ok
           THEN /\ output' = (IF a.hasText THEN a.text ELSE <<>>)
                /\ pc' = "judge"
           ELSE /\ pc' = "exec_fallback"
                /\ UNCHANGED output
    /\ UNCHANGED <<ui, route, req, env, logs, stream, closed, testCases, idx, run,
                   formatted, scores, results, optResults, failed, proposal, improved,
                   evaluation, err, http, tally>>

\* a fallback that sends the template instead of the rendered prompt
FallbackPromptUnrendered == req.prompt.text

\* the `content` of the message the Groq fallback sends: formattedPrompt
FallbackPrompt == formatted

\* executePromptWithGemini, the catch block: the Groq call with the same
\* formattedPrompt; `content || ""`; a failure propagates.
ExecuteFallback ==
    /\ pc = "exec_fallback"
    /\ \E a \in FallbackAnswers :
        /\ Admitted(a, FallbackNominal, TRUE)
        /\ Counted(a, FallbackNominal)
        /\ calls' = Append(calls, Call("groq", "complete", FallbackPrompt, a))
        /\ IF a.ok
           THEN /\ output' = (IF a.hasText THEN a.text ELSE <<>>)
                /\ pc' = "judge"
                /\ UNCHANGED err
           ELSE /\ Throw("provider error")
                /\ UNCHANGED output
    /\ UNCHANGED <<ui, route, req, env, logs, stream, closed, testCases, idx, run,
                   formatted, scores, results, optResults, failed, proposal, improved,
                   evaluation, http, tally>>

\* runPrompt: one Anthropic call, no fallback, no try.
RunPrompt ==
    /\ pc = "exec"
    /\ route = BT
    /\ \E a \in ExecAnswers(BT) :
        /\ Admitted(a, ExecNominal(BT), env.anthropic)
        /\ Counted(a, ExecNominal(BT))
        /\ calls' = Append(calls, Call("anthropic", "complete", formatted, a))
        /\ IF a.ok
           THEN /\ output' = (IF a.hasText THEN a.text ELSE <<>>)
                /\ pc' = "judge"
                /\ UNCHANGED err
           ELSE /\ Throw("provider error")
                /\ UNCHANGED output
    /\ UNCHANGED <<ui, route, req, env, logs, stream, closed, testCases, idx, run,
                   formatted, scores, results, optResults, failed, proposal, improved,
                   evaluation, http, tally>>

\* The verdict judgeWithClaude returns for an answer that arrived: the
\* default verdict when no braces are found, else whatever JSON.parse yields.
\* thrown = TRUE when JSON.parse throws.
Verdict(a) ==
    LET text == IF a.hasText THEN a.text ELSE <<"{", "}">>
        m == Match(text, "{", "}")
        p == JsonParse(m.span, "{", "}")
    IN  IF ~m.found
        THEN [thrown |-> FALSE,
              v |-> [score |-> 0, reason |-> "Failed to parse judge response",
                     allPassed |-> FALSE]]
        ELSE IF ~p.ok
        THEN [thrown |-> TRUE, v |-> VerdictOf(<<>>)]
        ELSE [thrown |-> FALSE, v |-> VerdictOf(p.val)]

\* judgeWithClaude and the results.push that follows it.
JudgeWithClaude ==
    /\ pc = "judge"
    /\ route = LS
    /\ \E a \in VerdictAnswers :
        /\ Admitted(a, VerdictNominal, env.anthropic)
        /\ Counted(a, VerdictNominal)
        /\ calls' = Append(calls, Call("anthropic", "judge", <<>>, a))
        /\ IF ~a.ok \/ Verdict(a).thrown
           THEN /\ Throw(IF ~a.ok THEN "provider error" ELSE "SyntaxError")
                /\ UNCHANGED <<results, optResults, idx>>
           ELSE LET v == Verdict(a).v
                    r == [input |-> testCases[idx + 1].input, output |-> output,
                          score |-> v.score, failureReason |-> v.reason,
                          allPassed |-> v.allPassed]
                IN  /\ UNCHANGED err
                    /\ IF run = 1
                       THEN /\ results' = Append(results, r)
                            /\ pc' = "trace"
                            /\ UNCHANGED <<optResults, idx>>
                       ELSE /\ optResults' = Append(optResults, r)
                            /\ idx' = idx + 1
                            /\ pc' = "loop"
                            /\ UNCHANGED results
    /\ UNCHANGED <<ui, route, req, env, logs, stream, closed, testCases, run, formatted,
                   output, scores, failed, proposal, improved, evaluation, http, tally>>

\* an iteration that ends without its `completed` log
logToLangSmithNoLog ==
    /\ pc = "trace"
    /\ calls' = Append(calls, Call("langsmith", "trace", <<>>, NoText))
    /\ idx' = idx + 1
    /\ pc' = "loop"
    /\ UNCHANGED <<ui, route, req, env, logs, stream, closed, faults, testCases, run,
                   formatted, output, scores, results, optResults, failed, proposal,
                   improved, evaluation, err, http, tally>>

\* logToLangSmith (the traceable wrapper never fails the caller) and the
\* `completed` log that ends an iteration of the first run.
logToLangSmith ==
    /\ pc = "trace"
    /\ calls' = Append(calls, Call("langsmith", "trace", <<>>, NoText))
    /\ sendLog(<<LogEntry("Test completed", idx + 1, "completed")>>)
    /\ idx' = idx + 1
    /\ pc' = "loop"
    /\ UNCHANGED <<ui, route, req, env, closed, faults, testCases, run, formatted, output,
                   scores, results, optResults, failed, proposal, improved, evaluation,
                   err, http, tally>>

\* a scorer whose catch block returns 1 for a failed call
LastDigitScoreCatchOne(a) ==
    LET text == IF a.hasText THEN a.text ELSE <<"0">>
        ds == {i \in DOMAIN text : text[i] \in {"0", "1"}}
        last == IF ds = {} THEN 0 ELSE CHOOSE i \in ds : \A j \in ds : i >= j
    IN  IF ~a.ok \/ (last # 0 /\ text[last] = "1") THEN One ELSE 0

\* the last "0" or "1" of the answer (response.match(/[01]/g)), "0" if none;
\* a failed call scores 0
LastDigitScore(a) ==
    LET text == IF a.hasText THEN a.text ELSE <<"0">>
        ds == {i \in DOMAIN text : text[i] \in {"0", "1"}}
        last == IF ds = {} THEN 0 ELSE CHOOSE i \in ds : \A j \in ds : i >= j
    IN  IF a.ok /\ last # 0 /\ text[last] = "1" THEN One ELSE 0

\* response === "1" on the trimmed answer; a failed call scores 0
ExactScore(a) ==
    IF a.ok /\ a.hasText /\ a.text = <<"1">> THEN One ELSE 0

\* JSON.parse(output) does not throw
JsonValid(text) ==
    \/ JsonParse(text, "{", "}").ok
    \/ JsonParse(text, "[", "]").ok
    \/ text = <<"4">>

\* an overall that is the mean of factuality, battle and jsonValidity only
RecordScoresWithoutTone(sc) ==
    LET full == [sc EXCEPT !.overall = (sc.factuality + sc.battle + sc.jsonValidity) \div 3]
    IN  /\ scores' = full
        /\ results' = Append(results, [input |-> testCases[idx + 1].input,
                                       output |-> output, scores |-> full])
        /\ sendLog(<<LogEntry("Test completed", idx + 1, "completed")>>)
        /\ idx' = idx + 1
        /\ pc' = "loop"

\* the end of evaluateTestCase and of the loop iteration: overall, push, log
RecordScores(sc) ==
    LET full == [sc EXCEPT !.overall =
                    (sc.factuality + sc.battle + sc.jsonValidity + sc.tone) \div 4]
    IN  /\ scores' = full
        /\ results' = Append(results, [input |-> testCases[idx + 1].input,
                                       output |-> output, scores |-> full])
        /\ sendLog(<<LogEntry("Test completed", idx + 1, "completed")>>)
        /\ idx' = idx + 1
        /\ pc' = "loop"

\* evaluateTestCase, step 1: scoreFactuality
scoreFactuality ==
    /\ pc = "judge"
    /\ route = BT
    /\ \E a \in YesNoAnswers :
        /\ Admitted(a, YesNoNominal, env.anthropic)
        /\ Counted(a, YesNoNominal)
        /\ calls' = Append(calls, Call("anthropic", "factuality", <<>>, a))
        /\ scores' = [NoScores EXCEPT !.factuality = LastDigitScore(a)]
    /\ pc' = "battle"
    /\ UNCHANGED <<ui, route, req, env, logs, stream, closed, testCases, idx, run,
                   formatted, output, results, optResults, failed, proposal, improved,
                   evaluation, err, http, tally>>

\* evaluateTestCase, steps 2 and 3: scoreBattle, then the JSON validity
\* score; step 4 without an expected tone
scoreBattle ==
    /\ pc = "battle"
    /\ \E a \in YesNoAnswers :
        /\ Admitted(a, YesNoNominal, env.anthropic)
        /\ Counted(a, YesNoNominal)
        /\ calls' = Append(calls, Call("anthropic", "battle", <<>>, a))
        /\ LET tc == testCases[idx + 1]
               sc == [scores EXCEPT
                        !.battle = LastDigitScore(a),
                        !.jsonValidity = IF tc.expectsJSON
                                         THEN (IF JsonValid(output) THEN One ELSE 0)
                                         ELSE One]
           IN  IF tc.expectedTone
               THEN /\ scores' = sc
                    /\ pc' = "tone"
                    /\ UNCHANGED <<logs, stream, results, idx>>
               ELSE RecordScores([sc EXCEPT !.tone = One])
    /\ UNCHANGED <<ui, route, req, env, closed, testCases, run, formatted, output,
                   optResults, failed, proposal, improved, evaluation, err, http, tally>>

\* evaluateTestCase, step 4 with an expected tone: scoreTone
scoreTone ==
    /\ pc = "tone"
    /\ \E a \in YesNoAnswers :
        /\ Admitted(a, YesNoNominal, env.anthropic)
        /\ Counted(a, YesNoNominal)
        /\ calls' = Append(calls, Call("anthropic", "tone", <<>>, a))
        /\ RecordScores([scores EXCEPT !.tone = ExactScore(a)])
    /\ UNCHANGED <<ui, route, req, env, closed, testCases, run, formatted, output,
                   optResults, failed, proposal, improved, evaluation, err, http, tally>>

\* ----------------------------------- streamed routes: failures, optimizer

\* value of a rate when the divisor is 0 (NaN)
NaN == -1

\* x / n * 100 with one decimal, in tenths of a percent
Rate(x, n) == IF n = 0 THEN NaN ELSE (x * 1000) \div n

\* a filter that keeps every result
FailedResultsAll(rs) == DOMAIN rs

\* results.filter((r) => r.score === 0)
FailedResults(rs) == {k \in DOMAIN rs : rs[k].score = 0}

\* a filter that keeps the results below one half only
FailedTestsBelowHalf(rs) == {k \in DOMAIN rs : rs[k].scores.overall < 50}

\* results.filter((r) => r.scores.overall < 0.8)
FailedTests(rs) == {k \in DOMAIN rs : rs[k].scores.overall < PassThreshold}

\* a count of the results at one half or above
PassedTestsLenient(rs) == Cardinality({k \in DOMAIN rs : rs[k].scores.overall >= 50})

\* results.filter((r) => r.scores.overall >= 0.8).length
PassedTests(rs) == Cardinality({k \in DOMAIN rs : rs[k].scores.overall >= PassThreshold})

\* the array a filter returns: the elements at the kept positions, in order
RECURSIVE FilteredFrom(_, _, _)
FilteredFrom(rs, kept, k) ==
    IF k > Len(rs) THEN <<>>
    ELSE (IF k \in kept THEN <<rs[k]>> ELSE <<>>) \o FilteredFrom(rs, kept, k + 1)

Filtered(rs, kept) == FilteredFrom(rs, kept, 1)

\* POST after the loop of the first run: the failing set, the logs that
\* depend on it, the initial values of optimizedPrompt / reasoning / changes.
FinishTests ==
    /\ pc = "loop"
    /\ UNCHANGED calls
    /\ run = 1
    /\ idx = Len(testCases)
    /\ IF route = LS
       THEN /\ failed' = FailedResults(results)
            /\ proposal' = [prompt |-> req.prompt.text, hasPrompt |-> TRUE,
                            reasoning |-> "", changes |-> <<>>]
            /\ IF failed' # {}
               THEN /\ sendLog(<<LogEntry("Tests completed", 0, "completed"),
                                 LogEntry("Analyzing failures", 0, "running")>>)
                    /\ pc' = "failure_dataset"
               ELSE /\ sendLog(<<LogEntry("Tests completed", 0, "completed"),
                                 LogEntry("All tests passed", 0, "completed")>>)
                    /\ pc' = "finish"
       ELSE /\ failed' = FailedTests(results)
            /\ UNCHANGED proposal
            /\ IF failed' # {}
               THEN /\ sendLog(<<LogEntry("All tests completed", 0, "completed"),
                                 LogEntry("Analyzing failures", 0, "running")>>)
                    /\ pc' = "optimize"
               ELSE /\ sendLog(<<LogEntry("All tests completed", 0, "completed"),
                                 LogEntry("All tests passed", 0, "completed")>>)
                    /\ pc' = "finish"
    /\ UNCHANGED <<ui, route, req, env, closed, faults, testCases, idx, run,
                   formatted, output, scores, results, optResults, improved,
                   evaluation, err, http, tally>>

SinkNominal == {Answer(<<>>)}
SinkAnswers == SinkNominal \cup {Failure}

\* createFailureDataset: its own try/catch swallows every failure of the sink.
createFailureDataset ==
    /\ pc = "failure_dataset"
    /\ \E a \in SinkAnswers :
        /\ Admitted(a, SinkNominal, TRUE)
        /\ Counted(a, SinkNominal)
        /\ calls' = Append(calls, Call("langsmith", "createDataset", <<>>, a))
    /\ sendLog(<<LogEntry("Generating optimized prompt", 0, "running")>>)
    /\ pc' = "optimize"
    /\ UNCHANGED <<ui, route, req, env, closed, testCases, idx, run, formatted, output,
                   scores, results, optResults, failed, proposal, improved, evaluation,
                   err, http, tally>>

\* generateOptimizedPrompt and the code of POST up to the second loop: a
\* failed call, a text without braces and a JSON.parse error all throw;
\* `changes.length` throws when the parsed object has no changes.
generateOptimizedPrompt ==
    /\ pc = "optimize"
    /\ route = LS
    /\ \E a \in ProposalAnswers :
        /\ Admitted(a, ProposalNominal, env.anthropic)
        /\ Counted(a, ProposalNominal)
        /\ calls' = Append(calls, Call("anthropic", "optimize", Filtered(results, failed), a))
        /\ LET text == IF a.hasText THEN a.text ELSE <<"{", "}">>
               m == Match(text, "{", "}")
               p == JsonParse(m.span, "{", "}")
               o == ProposalOf(p.val)
           IN  IF ~a.ok \/ ~m.found \/ ~p.ok
               THEN /\ Throw(IF ~a.ok THEN "provider error"
                             ELSE IF ~m.found THEN "Failed to generate optimization"
                             ELSE "SyntaxError")
                    /\ UNCHANGED <<logs, stream, proposal, run, idx>>
               ELSE /\ proposal' = [prompt |-> o.prompt, hasPrompt |-> o.hasPrompt,
                                    reasoning |-> o.reasoning, changes |-> o.changes]
                    /\ IF ~o.hasChanges
                       THEN /\ Throw("TypeError")
                            /\ UNCHANGED <<logs, stream, run, idx>>
                       ELSE /\ sendLog(<<LogEntry("Optimization complete", 0, "completed"),
                                         LogEntry("Testing optimized prompt", 0, "running")>>)
                            /\ run' = 2
                            /\ idx' = 0
                            /\ pc' = "loop"
                            /\ UNCHANGED err
    /\ UNCHANGED <<ui, route, req, env, closed, testCases, formatted, output, scores,
                   results, optResults, failed, improved, evaluation, http, tally>>

\* getImprovedPrompts: the parsed array, or [] when the call fails, the text
\* has no brackets or JSON.parse throws (its catch returns []).
ImprovedPrompts(a) ==
    LET text == IF a.hasText THEN a.text ELSE <<>>
        m == Match(text, "[", "]")
        p == JsonParse(m.span, "[", "]")
    IN  IF a.ok /\ m.found /\ p.ok THEN p.val ELSE <<>>

getImprovedPrompts ==
    /\ pc = "optimize"
    /\ route = BT
    /\ \E a \in ImprovedAnswers :
        /\ Admitted(a, ImprovedNominal, env.anthropic)
        /\ Counted(a, ImprovedNominal)
        /\ calls' = Append(calls, Call("anthropic", "optimize", Filtered(results, failed), a))
        /\ improved' = ImprovedPrompts(a)
    /\ sendLog(<<LogEntry("Improvement suggestions ready", 0, "completed")>>)
    /\ pc' = "finish"
    /\ UNCHANGED <<ui, route, req, env, closed, testCases, idx, run, formatted, output,
                   scores, results, optResults, failed, proposal, evaluation, err, http, tally>>

\* POST after the loop of the second run
FinishOptimized ==
    /\ pc = "loop"
    /\ UNCHANGED calls
    /\ run = 2
    /\ idx = Len(testCases)
    /\ sendLog(<<LogEntry("A/B test complete", 0, "completed")>>)
    /\ pc' = "finish"
    /\ UNCHANGED <<ui, route, req, env, closed, faults, testCases, idx, run,
                   formatted, output, scores, results, optResults, failed, proposal,
                   improved, evaluation, err, http, tally>>

\* ------------------------------------------ streamed routes: the two ends

RECURSIVE SumOverall(_)
SumOverall(rs) == IF rs = <<>> THEN 0 ELSE Head(rs).scores.overall + SumOverall(Tail(rs))

\* improvedPrompts.slice(0, 3)
FirstThree(xs) == SubSeq(xs, 1, IF Len(xs) < 3 THEN Len(xs) ELSE 3)

\* the evaluation object of the complete record
Evaluation(ls) ==
    IF route = LS
    THEN [sent |-> TRUE,
          originalPrompt |-> req.prompt.text,
          optimizedPrompt |-> proposal.prompt,
          originalResults |-> results,
          metrics |-> [originalPassRate |->
                          Rate(Len(results) - Cardinality(failed), Len(results)),
                       totalTests |-> Len(results),
                       failures |-> Cardinality(failed)],
          optimization |-> [reasoning |-> proposal.reasoning,
                            changes |-> proposal.changes],
          logs |-> ls]
    ELSE [sent |-> TRUE,
          prompt |-> req.prompt.text,
          summary |-> [total_tests |-> Len(results),
                       passed_tests |-> PassedTests(results),
                       failed_tests |-> Cardinality(failed),
                       success_rate |->
                          Rate(PassedTests(results), Len(results)),
                       average_score |->
                          IF Len(results) = 0 THEN NaN
                          ELSE (SumOverall(results) * 10) \div Len(results)],
          results |-> results,
          improvedPrompts |-> FirstThree(improved),
          syntheticDataset |-> testCases,
          logs |-> ls]

\* POST, the end of the try block: the complete record, then close.
Complete ==
    /\ pc = "finish"
    /\ UNCHANGED calls
    /\ logs' = (IF route = BT
                THEN logs \o Stamp(<<LogEntry("Evaluation complete", 0, "completed")>>)
                ELSE logs)
    /\ evaluation' = Evaluation(logs')
    /\ stream' = (IF route = BT
                  THEN Append(stream, LogRecord(Last(logs')))
                  ELSE stream) \o <<CompleteRecord(logs')>>
    /\ closed' = closed + 1
    /\ pc' = "done"
    /\ UNCHANGED <<ui, route, req, env, faults, testCases, idx, run, formatted,
                   output, scores, results, optResults, failed, proposal, improved,
                   err, http, tally>>

\* a catch block that writes the error record and leaves the writer open
HandleErrorNoClose ==
    /\ pc = "catch"
    /\ UNCHANGED calls
    /\ route \in Streaming
    /\ sendLogThenWrite(<<LogEntry("Error occurred", 0, "error")>>,
            ErrorRecordWithLogs("Failed", err, logs'))
    /\ pc' = "done"
    /\ UNCHANGED <<ui, route, req, env, closed, faults, testCases, idx, run,
                   formatted, output, scores, results, optResults, failed, proposal,
                   improved, evaluation, err, http, tally>>

\* POST, the catch block: log, error record with the logs, close.
HandleError ==
    /\ pc = "catch"
    /\ UNCHANGED calls
    /\ route \in Streaming
    /\ sendLogThenWrite(<<LogEntry("Error occurred", 0, "error")>>,
            ErrorRecordWithLogs(IF route = LS THEN "Failed to optimize prompt"
                                ELSE "Failed to run Braintrust evaluation", err, logs'))
    /\ closed' = closed + 1
    /\ pc' = "done"
    /\ UNCHANGED <<ui, route, req, env, faults, testCases, idx, run, formatted,
                   output, scores, results, optResults, failed, proposal, improved,
                   evaluation, err, http, tally>>

\* ------------------------------------------------- plain HTTP routes

\* llm-judge and prompt-test: `!prompt || typeof prompt !== "string"` -> 400
RejectPrompt ==
    /\ pc = "start"
    /\ route \in {LJ, PT}
    /\ ~ValidRequest
    /\ http' = 400
    /\ pc' = "done"
    /\ UNCHANGED <<ui, route, req, env, logs, stream, closed, calls, faults, testCases,
                   idx, run, formatted, output, scores, results, optResults, failed,
                   proposal, improved, evaluation, err, tally>>

\* the catch block of a plain HTTP route: status 500
Respond500(msg) == http' = 500 /\ pc' = "done" /\ err' = msg

LjNominal == {Answer(<<"w", "{", "e:scores", "}">>)}
LjAnswers == LjNominal \cup {Answer(<<"w">>), Answer(<<"{", "w", "}">>), NoText, Failure}

\* llm-judge POST, step 1: the initial completion of the prompt.
ljInitialResponse ==
    /\ pc = "start"
    /\ route = LJ
    /\ ValidRequest
    /\ \E a \in ExecAnswers(LJ) :
        /\ Admitted(a, ExecNominal(LJ), env.anthropic)
        /\ Counted(a, ExecNominal(LJ))
        /\ calls' = Append(calls, Call("anthropic", "complete", req.prompt.text, a))
        /\ IF a.ok /\ a.hasText
           THEN /\ output' = a.text
                /\ pc' = "lj_judge"
                /\ UNCHANGED <<http, err>>
           ELSE /\ Respond500(IF a.ok THEN "No text content in initial response"
                              ELSE "provider error")
                /\ UNCHANGED output
    /\ UNCHANGED <<ui, route, req, env, logs, stream, closed, testCases, idx, run,
                   formatted, scores, results, optResults, failed, proposal, improved,
                   evaluation, tally>>

\* llm-judge POST, step 2: the judge call and the response.
ljJudge ==
    /\ pc = "lj_judge"
    /\ \E a \in LjAnswers :
        /\ Admitted(a, LjNominal, env.anthropic)
        /\ Counted(a, LjNominal)
        /\ calls' = Append(calls, Call("anthropic", "judge", output, a))
        /\ LET m == Match(a.text, "{", "}")
               p == JsonParse(m.span, "{", "}")
           IN  IF a.ok /\ a.hasText /\ m.found /\ p.ok
               THEN /\ http' = 200
                    /\ evaluation' = [sent |-> TRUE, prompt |-> req.prompt.text,
                                      ai_response |-> output, evaluation |-> p.val]
                    /\ pc' = "done"
                    /\ UNCHANGED err
               ELSE /\ Respond500(IF ~a.ok THEN "provider error"
                                  ELSE IF ~a.hasText THEN "No text content in judge response"
                                  ELSE IF ~m.found THEN "Could not parse judge evaluation"
                                  ELSE "SyntaxError")
                    /\ UNCHANGED evaluation
    /\ UNCHANGED <<ui, route, req, env, logs, stream, closed, testCases, idx, run,
                   formatted, output, scores, results, optResults, failed, proposal,
                   improved, tally>>

\* SAMPLE_DATASETS: the inputs of each dataset
SampleDataset(name) ==
    IF name = "creative"
    THEN <<<<"robot story">>, <<"haiku">>, <<"slogan">>>>
    ELSE <<<<"quantum computing">>, <<"photosynthesis">>, <<"blockchain">>,
           <<"machine learning">>>>

\* prompt-test POST, up to the loop: select the dataset, zero the counters.
ptSelectDataset ==
    /\ pc = "start"
    /\ route = PT
    /\ ValidRequest
    /\ testCases' = SampleDataset(req.dataset)
    /\ pc' = "pt_run"
    /\ UNCHANGED <<ui, route, req, env, logs, stream, closed, calls, faults, idx, run,
                   formatted, output, scores, results, optResults, failed, proposal,
                   improved, evaluation, err, http, tally>>

\* a catch block that pushes the failed test as passed
ptErrorResultPassed(input) ==
    [input |-> input, output |-> <<"Error running test">>, passed |-> TRUE,
     score |-> 0, feedback |-> "Test execution failed"]

\* the result the per-test catch block pushes
ptErrorResult(input) ==
    [input |-> input, output |-> <<"Error running test">>, passed |-> FALSE,
     score |-> 0, feedback |-> "Test execution failed"]

\* runClaudePrompt for the next test case; a failure lands in the catch
\* block of the iteration.
runClaudePrompt ==
    /\ pc = "pt_run"
    /\ idx < Len(testCases)
    /\ \E a \in ExecAnswers(PT) :
        /\ Admitted(a, ExecNominal(PT), env.anthropic)
        /\ Counted(a, ExecNominal(PT))
        /\ formatted' = Render(req.prompt.text, testCases[idx + 1])
        /\ calls' = Append(calls, Call("anthropic", "complete", formatted', a))
        /\ IF a.ok
           THEN /\ output' = (IF a.hasText THEN a.text ELSE <<>>)
                /\ pc' = "pt_eval"
                /\ UNCHANGED <<results, tally, idx>>
           ELSE /\ results' = Append(results, ptErrorResult(testCases[idx + 1]))
                /\ tally' = [tally EXCEPT !.failedAssertions = @ + 1]
                /\ idx' = idx + 1
                /\ UNCHANGED <<output, pc>>
    /\ UNCHANGED <<ui, route, req, env, logs, stream, closed, testCases, run, scores,
                   optResults, failed, proposal, improved, evaluation, err, http>>

\* a parsed evaluation object of the Dataset Tests judge
EvalOf(body) ==
    IF body = <<"e:good">> THEN [score |-> 90, passed |-> TRUE, feedback |-> "judge"]
    ELSE IF body = <<"e:poor">> THEN [score |-> 50, passed |-> FALSE, feedback |-> "judge"]
    ELSE IF body = <<"e:lenient">> THEN [score |-> 50, passed |-> TRUE, feedback |-> "judge"]
    ELSE [score |-> 90, passed |-> FALSE, feedback |-> "judge"]

EvalNominal == {Answer(<<"{", "e:good", "}">>), Answer(<<"w", "{", "e:poor", "}">>)}
EvalAnswers ==
    EvalNominal \cup {Answer(<<"{", "e:lenient", "}">>), Answer(<<"{", "e:strict", "}">>),
                      Answer(<<"w">>), Answer(<<"{", "w", "}">>), NoText, Failure}

\* evaluateWithLangSmith: everything that goes wrong yields a zero verdict.
EvaluateResult(a) ==
    LET m == Match(a.text, "{", "}")
        p == JsonParse(m.span, "{", "}")
    IN  IF ~a.ok THEN [score |-> 0, passed |-> FALSE, feedback |-> "Evaluation error occurred"]
        ELSE IF ~a.hasText THEN [score |-> 0, passed |-> FALSE, feedback |-> "Evaluation failed"]
        ELSE IF ~m.found
        THEN [score |-> 0, passed |-> FALSE, feedback |-> "Could not parse evaluation"]
        ELSE IF ~p.ok
        THEN [score |-> 0, passed |-> FALSE, feedback |-> "Evaluation error occurred"]
        ELSE EvalOf(p.val)

\* evaluateWithLangSmith, the optional createRun (its failure is swallowed),
\* the counters and the push.
evaluateWithLangSmith ==
    /\ pc = "pt_eval"
    /\ \E a \in EvalAnswers, t \in SinkAnswers :
        /\ Admitted(a, EvalNominal, env.anthropic)
        /\ IF env.langsmith THEN Admitted(t, SinkNominal, TRUE) ELSE t = Failure
        /\ faults' = faults + (IF a \in EvalNominal THEN 0 ELSE 1)
                            + (IF env.langsmith /\ t \notin SinkNominal THEN 1 ELSE 0)
        /\ calls' = calls \o (IF env.langsmith
                              THEN <<Call("anthropic", "judge", <<>>, a),
                                     Call("langsmith", "createRun", <<>>, t)>>
                              ELSE <<Call("anthropic", "judge", <<>>, a)>>)
        /\ LET e == EvaluateResult(a)
           IN  /\ tally' = [passedTests |-> tally.passedTests + (IF e.passed THEN 1 ELSE 0),
                            totalScore |-> tally.totalScore + e.score,
                            passedAssertions |->
                                tally.passedAssertions + (IF e.passed THEN 1 ELSE 0),
                            failedAssertions |->
                                tally.failedAssertions + (IF e.passed THEN 0 ELSE 1)]
               /\ results' = Append(results, [input |-> testCases[idx + 1],
                                              output |-> output, passed |-> e.passed,
                                              score |-> e.score, feedback |-> e.feedback])
    /\ idx' = idx + 1
    /\ pc' = "pt_run"
    /\ UNCHANGED <<ui, route, req, env, logs, stream, closed, testCases, run, formatted,
                   output, scores, optResults, failed, proposal, improved, evaluation,
                   err, http>>

\* prompt-test POST after the loop: the summary and the 200 response.
ptRespond ==
    /\ pc = "pt_run"
    /\ idx = Len(testCases)
    /\ evaluation' =
        [sent |-> TRUE,
         prompt |-> req.prompt.text,
         langsmith_enabled |-> env.langsmith,
         summary |-> [total_tests |-> Len(testCases),
                      passed_tests |-> tally.passedTests,
                      success_rate |-> IF Len(testCases) > 0
                                       THEN (tally.passedTests * 1000) \div Len(testCases)
                                       ELSE 0,
                      average_score |-> IF Len(testCases) > 0
                                        THEN tally.totalScore \div Len(testCases)
                                        ELSE 0],
         results |-> results,
         stats |-> [total_assertions |-> tally.passedAssertions + tally.failedAssertions,
                    passed_assertions |-> tally.passedAssertions,
                    failed_assertions |-> tally.failedAssertions]]
    /\ http' = 200
    /\ pc' = "done"
    /\ UNCHANGED <<ui, route, req, env, logs, stream, closed, calls, faults, testCases,
                   idx, run, formatted, output, scores, results, optResults, failed,
                   proposal, improved, err, tally>>

\* ------------------------------------------------- the page that reads the stream

\* One `data: ` line in the loop of runBraintrustEval: a log is appended to
\* processingLogs, a complete record sets the evaluation, and the Error
\* thrown for an error record is caught by the try/catch around the line,
\* which only writes to the console.
BraintrustLine(c, rec) ==
    IF rec.type = "log" THEN [c EXCEPT !.shown = Append(@, rec.log)]
    ELSE IF rec.type = "complete" THEN [c EXCEPT !.result = TRUE]
    ELSE c

\* the message runLangSmithOptimization shows for an error record
ErrorMsg(rec) ==
    IF rec.details # "" THEN rec.details
    ELSE IF rec.error # "" THEN rec.error
    ELSE "Optimization failed"

\* One `data: ` line in the loop of runLangSmithOptimization: an error
\* record is shown with alert and thrown; the catch around the line rethrows
\* it only when its message is "Optimization failed", and then the outer
\* catch shows a second alert and the function ends.
LangSmithLine(c, rec) ==
    IF rec.type = "log" THEN [c EXCEPT !.shown = Append(@, rec.log)]
    ELSE IF rec.type = "complete" THEN [c EXCEPT !.result = TRUE]
    ELSE IF ErrorMsg(rec) # "Optimization failed"
    THEN [c EXCEPT !.alerts = Append(@, ErrorMsg(rec))]
    ELSE [c EXCEPT !.alerts = @ \o <<ErrorMsg(rec), "Failed to run LangSmith optimization">>,
                   !.pc = "finished"]

\* one line of the chunk, with the bookkeeping of what the page has processed
Line(c, rec) ==
    LET d == IF route = BT THEN BraintrustLine(c, rec) ELSE LangSmithLine(c, rec)
    IN  [d EXCEPT !.read = @ + 1,
                  !.after = IF c.terminal THEN @ + 1 ELSE @,
                  !.terminal = c.terminal \/ rec.type \in {"complete", "error"}]

\* `for (const line of lines)`: the lines of the chunk in order, until the
\* function is left
RECURSIVE Lines(_, _)
Lines(c, recs) ==
    IF recs = <<>> \/ c.pc = "finished" THEN c
    ELSE Lines(Line(c, Head(recs)), Tail(recs))

\* reader.read() returns the records written so far and the loop over their
\* lines runs.  What the page holds after k records depends on those k
\* records only, so the read is taken once the handler has written them all.
ReadChunk ==
    /\ route \in Streaming
    /\ pc = "done"
    /\ ui.pc = "reading"
    /\ ui.read < Len(stream)
    /\ ui' = Lines(ui, SubSeq(stream, ui.read + 1, Len(stream)))
    /\ UNCHANGED <<route, req, env, pc, logs, stream, closed, calls, faults, testCases,
                   idx, run, formatted, output, scores, results, optResults, failed,
                   proposal, improved, evaluation, err, http, tally>>

\* reader.read() returns done after the writer was closed: the loop ends and
\* the finally block runs.
ReadDone ==
    /\ route \in Streaming
    /\ pc = "done"
    /\ closed > 0
    /\ ui.pc = "reading"
    /\ ui.read = Len(stream)
    /\ ui' = [ui EXCEPT !.pc = "finished"]
    /\ UNCHANGED <<route, req, env, pc, logs, stream, closed, calls, faults, testCases,
                   idx, run, formatted, output, scores, results, optResults, failed,
                   proposal, improved, evaluation, err, http, tally>>

\* ------------------------------------- the page reader, chunk by chunk

\* The text of a response body is a sequence of pieces.  One record is written
\* as `data: ${JSON.stringify(rec)}\n\n`: the prefix "data: " in two pieces,
\* the JSON text of the record in two pieces, and two newlines.  A chunk may
\* end after any piece.
Piece(c, rec) == [c |-> c, rec |-> rec]
NoRecord == LogRecord(NoLog)
Newline == Piece("nl", NoRecord)

Encode(recs) ==
    Flatten([k \in DOMAIN recs |->
        <<Piece("da", NoRecord), Piece("ta: ", NoRecord),
          Piece("json1", recs[k]), Piece("json2", recs[k]), Newline, Newline>>])

\* buffer.split("\n"): the pieces between the newlines, the text after the
\* last newline being the last element
RECURSIVE SplitLines(_)
SplitLines(text) ==
    LET nls == {i \in DOMAIN text : text[i] = Newline}
        first == CHOOSE i \in nls : \A j \in nls : i <= j
    IN  IF nls = {} THEN <<text>>
        ELSE <<SubSeq(text, 1, first - 1)>> \o SplitLines(SubSeq(text, first + 1, Len(text)))

\* a reader that forgets the text after the last newline
RemainderDropped(lines) == <<>>

\* buffer = lines.pop() || ""
Remainder(lines) == Last(lines)

\* line.startsWith("data: ")
StartsWithData(line) ==
    Len(line) >= 2 /\ line[1].c = "da" /\ line[2].c = "ta: "

\* JSON.parse(line.slice(6)): the record when the rest of the line is the
\* whole JSON text of one record, a SyntaxError otherwise
ParseLine(line) ==
    LET rest == SubSeq(line, 3, Len(line))
    IN  IF /\ Len(rest) = 2
           /\ rest[1].c = "json1"
           /\ rest[2].c = "json2"
           /\ rest[1].rec = rest[2].rec
        THEN [ok |-> TRUE, rec |-> rest[1].rec]
        ELSE [ok |-> FALSE, rec |-> NoRecord]

\* the body of `for (const line of lines)`: a line that does not start with
\* "data: " is skipped; the SyntaxError of JSON.parse is caught by the
\* try/catch around the line and written to the console in both readers
HandleLine(c, line) ==
    IF ~StartsWithData(line) THEN c
    ELSE IF ~ParseLine(line).ok THEN c
    ELSE Line(c, ParseLine(line).rec)

\* the lines of one chunk in order, until the function is left
RECURSIVE HandleLines(_, _)
HandleLines(c, lines) ==
    IF lines = <<>> \/ c.pc = "finished" THEN c
    ELSE HandleLines(HandleLine(c, Head(lines)), Tail(lines))

\* One turn of `while (true)`: reader.read() returns the next n pieces of the
\* body; they are appended to buffer, the buffer is split at the newlines,
\* the last element stays in buffer and the lines before it are handled.
ReadBytes ==
    /\ ui.pc = "reading"
    /\ ui.fed < Len(Encode(stream))
    /\ \E n \in 1..MaxChunk :
        LET body == Encode(stream)
            upto == IF ui.fed + n > Len(body) THEN Len(body) ELSE ui.fed + n
            lines == SplitLines(ui.buffer \o SubSeq(body, ui.fed + 1, upto))
            kept == [ui EXCEPT !.buffer = Remainder(lines), !.fed = upto]
        IN  ui' = HandleLines(kept, SubSeq(lines, 1, Len(lines) - 1))
    /\ UNCHANGED <<route, req, env, pc, logs, stream, closed, calls, faults, testCases,
                   idx, run, formatted, output, scores, results, optResults, failed,
                   proposal, improved, evaluation, err, http, tally>>

\* reader.read() returns done: the loop ends, what is left in buffer is
\* not looked at.
ReadBytesDone ==
    /\ ui.pc = "reading"
    /\ ui.fed = Len(Encode(stream))
    /\ ui' = [ui EXCEPT !.pc = "finished"]
    /\ UNCHANGED <<route, req, env, pc, logs, stream, closed, calls, faults, testCases,
                   idx, run, formatted, output, scores, results, optResults, failed,
                   proposal, improved, evaluation, err, http, tally>>

\* the records a response body may carry: two log records, a complete
\* record, the error record of a catch block, and an error record with
\* neither `error` nor `details`
SampleRecords ==
    LET la == [phase |-> "Test running", i |-> 1, status |-> "running", timestamp |-> 1]
        lb == [phase |-> "Test completed", i |-> 1, status |-> "completed", timestamp |-> 2]
    IN  {LogRecord(la), LogRecord(lb), CompleteRecord(<<la, lb>>),
         ErrorRecordWithLogs("Failed to optimize prompt", "provider error", <<la>>),
         ErrorRecord("", "")}

\* The page starts to read a response whose handler has finished: the body
\* is any sequence of records.
ReaderInit ==
    /\ route \in Streaming
    /\ req = [prompt |-> [kind |-> "string", text |-> Template], goal |-> route = LS,
              promptName |-> route = LS, rubric |-> route = LS, dataset |-> "general"]
    /\ env = [gemini |-> TRUE, langsmith |-> TRUE, anthropic |-> TRUE]
    /\ pc = "done"
    /\ logs = <<>>
    /\ stream \in UNION {[1..n -> SampleRecords] : n \in 0..MaxRecords}
    /\ closed = 1
    /\ calls = <<>>
    /\ faults = 0
    /\ testCases = <<>>
    /\ idx = 0
    /\ run = 1
    /\ formatted = <<>>
    /\ output = <<>>
    /\ scores = NoScores
    /\ results = <<>>
    /\ optResults = <<>>
    /\ failed = {}
    /\ proposal = NoProposal
    /\ improved = <<>>
    /\ evaluation = NoEvaluation
    /\ err = ""
    /\ http = 0
    /\ tally = NoTally
    /\ ui = FreshPage

\* ------------------------------------------------------------ specification

Next ==
    \/ RejectRequest
    \/ RejectCredentials
    \/ BeginPipeline
    \/ GeneratePrimary
    \/ GenerateFallback
    \/ NextTest
    \/ ExecutePrimary
    \/ ExecuteFallback
    \/ RunPrompt
    \/ JudgeWithClaude
    \/ logToLangSmith
    \/ scoreFactuality
    \/ scoreBattle
    \/ scoreTone
    \/ FinishTests
    \/ createFailureDataset
    \/ generateOptimizedPrompt
    \/ getImprovedPrompts
    \/ FinishOptimized
    \/ Complete
    \/ HandleError
    \/ RejectPrompt
    \/ ljInitialResponse
    \/ ljJudge
    \/ ptSelectDataset
    \/ runClaudePrompt
    \/ evaluateWithLangSmith
    \/ ptRespond

Spec == Init /\ [][Next]_vars

\* The steps of the handler that wait for no provider: they run as soon as
\* the code reaches them.  A step that awaits a provider call runs when the
\* provider answers; no call of the pipelines carries a timeout or an abort
\* signal, so nothing makes it answer.
HandlerStep ==
    \/ RejectRequest
    \/ RejectCredentials
    \/ BeginPipeline
    \/ NextTest
    \/ FinishTests
    \/ FinishOptimized
    \/ Complete
    \/ HandleError

LiveSpec == Init /\ [][Next]_vars /\ WF_vars(HandlerStep)

\* the handler together with the page that reads its stream
PageNext ==
    \/ Next
    \/ ReadChunk
    \/ ReadDone

PageSpec == Init /\ [][PageNext]_vars

\* one invocation of the multi-dimension pipeline
BraintrustInit == Init /\ route = BT

BraintrustNext ==
    \/ RejectRequest
    \/ RejectCredentials
    \/ BeginPipeline
    \/ GeneratePrimary
    \/ GenerateFallback
    \/ NextTest
    \/ RunPrompt
    \/ scoreFactuality
    \/ scoreBattle
    \/ scoreTone
    \/ FinishTests
    \/ getImprovedPrompts
    \/ Complete
    \/ HandleError

BraintrustSpec == BraintrustInit /\ [][BraintrustNext]_vars

\* one invocation of the Dataset Tests route
DatasetTestsInit == Init /\ route = PT

DatasetTestsNext ==
    \/ RejectPrompt
    \/ ptSelectDataset
    \/ runClaudePrompt
    \/ evaluateWithLangSmith
    \/ ptRespond

DatasetTestsSpec == DatasetTestsInit /\ [][DatasetTestsNext]_vars

\* the page reader alone, fed a response body in chunks of any size
ReaderNext ==
    \/ ReadBytes
    \/ ReadBytesDone

ReaderSpec == ReaderInit /\ [][ReaderNext]_vars

\* ------------------------------------------------------------------ claims

Terminals == {k \in DOMAIN stream : stream[k].type \in {"complete", "error"}}

EndedWith(type) == pc = "done" /\ stream # <<>> /\ Last(stream).type = type

\* the calls of one kind
CallsOf(op) == {k \in DOMAIN calls : calls[k].op = op}

\* the completion call after which no provider is left to ask
LastResort(k) ==
    /\ calls[k].op = "complete"
    /\ calls[k].svc = (IF route = LS THEN "groq" ELSE "anthropic")

\* the result list of a run
ResultsOf(r) == IF r = 1 THEN results ELSE optResults

\* C1: in a streamed pipeline, when every provider fails for the completion
\* of one test case, the run is not aborted: a result with empty output and
\* zero score is appended for that test case and the stream ends with a
\* complete record.
C1_CompletionFailureKeepsRunning ==
    route \in Streaming =>
        \A k \in DOMAIN calls :
            (LastResort(k) /\ ~calls[k].ok) =>
                /\ pc # "catch"
                /\ pc = "done" => Last(stream).type = "complete"
                /\ Len(ResultsOf(calls[k].run)) > calls[k].idx =>
                        ResultsOf(calls[k].run)[calls[k].idx + 1].output = <<>>

\* a judge call whose outcome is a failure of the judgment: the provider
\* call failed, or (rubric judge) the answer has no parsable JSON object
JudgeFailure(k) ==
    /\ calls[k].op \in {"judge", "factuality", "battle", "tone"}
    /\ \/ ~calls[k].ok
       \/ /\ calls[k].op = "judge"
          /\ calls[k].text # <<>>
          /\ LET m == Match(calls[k].text, "{", "}")
             IN  ~m.found \/ ~JsonParse(m.span, "{", "}").ok

\* C2: in a streamed pipeline a judge failure on one test case does not
\* abort the run: the stream still ends with a complete record, and in the
\* rubric pipeline the result recorded for that test case has score 0.
C2_JudgeFailureKeepsRunning ==
    route \in Streaming =>
        \A k \in DOMAIN calls :
            JudgeFailure(k) =>
                /\ pc # "catch"
                /\ pc = "done" => Last(stream).type = "complete"
                /\ (route = LS /\ Len(ResultsOf(calls[k].run)) > calls[k].idx) =>
                        ResultsOf(calls[k].run)[calls[k].idx + 1].score = 0

\* C3: executePromptWithGemini.  The secondary provider is called only right
\* after a failed primary call of the same completion, with the same rendered
\* prompt; no provider is called twice for one completion; a successful
\* fallback makes its text the output and the pipeline goes on to the judge;
\* a failed fallback fails the completion (no result for that test case, the
\* handler is in or past its catch block); every result's output is the text
\* of the successful call of its completion.
C3_FallbackExactlyOnce ==
    route = LS =>
        LET cs == CallsOf("complete")
        IN  /\ \A k \in cs :
                /\ calls[k].svc = "groq" =>
                    /\ k > 1
                    /\ calls[k - 1].op = "complete"
                    /\ calls[k - 1].svc = "gemini"
                    /\ ~calls[k - 1].ok
                    /\ calls[k - 1].run = calls[k].run
                    /\ calls[k - 1].idx = calls[k].idx
                    /\ calls[k - 1].arg = calls[k].arg
                /\ (calls[k].svc = "gemini" /\ ~calls[k].ok /\ k = Len(calls)) =>
                        pc = "exec_fallback"
                /\ (calls[k].svc = "groq" /\ calls[k].ok /\ k = Len(calls)) =>
                        pc = "judge" /\ output = calls[k].text
                /\ (calls[k].svc = "groq" /\ ~calls[k].ok) =>
                    /\ k = Len(calls)
                    /\ pc \in {"catch", "done"}
                    /\ Len(ResultsOf(calls[k].run)) <= calls[k].idx
                    /\ pc = "done" => Last(stream).type = "error"
                /\ \A j \in cs :
                    (/\ calls[j].run = calls[k].run
                     /\ calls[j].idx = calls[k].idx
                     /\ calls[j].svc = calls[k].svc) => j = k
            /\ \A r \in {1, 2} : \A i \in DOMAIN ResultsOf(r) :
                \E k \in cs :
                    /\ calls[k].run = r
                    /\ calls[k].idx = i - 1
                    /\ calls[k].ok
                    /\ ResultsOf(r)[i].output = calls[k].text
                    /\ calls[k].arg =
                            Render(IF r = 1 THEN req.prompt.text ELSE proposal.prompt,
                                   testCases[i].input)

\* C3 witness: a run that ended with a complete record and holds a result
\* whose output is the text of the fallback provider.
C3_Witness ==
    /\ route = LS
    /\ EndedWith("complete")
    /\ \E i \in DOMAIN results : results[i].output = <<"fallback text">>
    /\ \E k \in CallsOf("complete") : calls[k].svc = "groq" /\ calls[k].ok

\* every handler that is not done can take a step: no run ends without
\* reaching "done"
NeverStuck == pc # "done" => ENABLED Next

\* C4: in a streamed route the stream carries no terminal record and the
\* writer is open until the handler is done; when it is done the stream holds
\* exactly one terminal record (complete or error), that record is the last
\* one written, and the writer has been closed exactly once.
C4_OneTerminalRecord ==
    route \in Streaming =>
        /\ pc # "done" => Terminals = {} /\ closed = 0
        /\ pc = "done" =>
            /\ Terminals = {Len(stream)}
            /\ closed = 1
            /\ Last(stream).type = "complete" <=> evaluation.sent
            /\ Last(stream).type = "error" =>
                    Len(stream) >= 2 /\ stream[Len(stream) - 1].type = "log"
                        /\ stream[Len(stream) - 1].log.status = "error"

\* C4 witness: a run that threw while test cases were being processed and
\* ended with its error record after log records.
C4_Witness ==
    /\ route \in Streaming
    /\ EndedWith("error")
    /\ err # ""
    /\ results # <<>>
    /\ closed = 1

\* what the specification calls a request with a required field missing
MissingRequiredField ==
    IF route = LS
    THEN req.prompt.kind = "missing" \/ ~req.goal \/ ~req.promptName
    ELSE req.prompt.kind \in {"missing", "nonstring"}

\* C5: a request with a required field missing never causes an external
\* call and never ends with a complete record or a 200 response; it ends
\* with an error record (streamed routes) or status 400 (plain routes).
C5_ValidationBeforeCalls ==
    MissingRequiredField =>
        /\ calls = <<>>
        /\ ~evaluation.sent
        /\ \A k \in DOMAIN stream : stream[k].type # "complete"
        /\ pc \in {"start", "done"}
        /\ pc = "done" =>
            IF route \in Streaming THEN Last(stream).type = "error" /\ http = 0
            ELSE http = 400 /\ stream = <<>>

\* C5 witness: the optimization pipeline rejected a request that has a
\* prompt and a goal but no promptName.
C5_Witness ==
    /\ route = LS
    /\ req.prompt.kind = "string" /\ req.goal /\ ~req.promptName
    /\ EndedWith("error")

\* C6: when the credential of a provider the pipeline needs is missing, no
\* external call is made and the stream ends with an error record.
C6_NoCallWithoutCredentials ==
    (/\ route \in Streaming
     /\ ~MissingRequiredField
     /\ ~env.gemini \/ ~env.anthropic \/ (route = LS /\ ~env.langsmith)) =>
        /\ calls = <<>>
        /\ pc = "done" => Last(stream).type = "error"

\* a generator answer that arrived and whose text has no "[...]" substring
NoBracketAnswer(k) ==
    /\ calls[k].op = "generate"
    /\ calls[k].ok
    /\ ~Match(calls[k].text, "[", "]").found

\* C7: when a generator answer has no "[...]" substring, generation fails:
\* no test case is executed (no completion or judge call) and the stream
\* ends with an error record, never a complete record.
C7_NoBracketEndsInError ==
    (\E k \in DOMAIN calls : NoBracketAnswer(k)) =>
        /\ \A k \in DOMAIN calls : calls[k].op = "generate"
        /\ testCases = <<>>
        /\ pc = "done" => Last(stream).type = "error"

\* an optimizer answer that arrived with a text holding no valid JSON
\* object (end-to-end pipeline) / array (one-shot variant)
NoJsonProposal(k) ==
    /\ calls[k].op = "optimize"
    /\ calls[k].ok
    /\ calls[k].text # <<>>
    /\ LET open == IF route = LS THEN "{" ELSE "["
           close == IF route = LS THEN "}" ELSE "]"
           m == Match(calls[k].text, open, close)
       IN  ~m.found \/ ~JsonParse(m.span, open, close).ok

\* C8: in both optimizer variants an answer without valid JSON ends the
\* invocation with an error record, never with a complete record.
C8_OptimizerParseFailureSurfaces ==
    (route \in Streaming /\ \E k \in DOMAIN calls : NoJsonProposal(k)) =>
        /\ \A k \in DOMAIN stream : stream[k].type # "complete"
        /\ pc = "done" => Last(stream).type = "error"

\* the results of the first run that are failing: score 0 in the rubric
\* pipeline, overall below 0.8 in the multi-dimension pipeline
Failing ==
    IF route = LS THEN {k \in DOMAIN results : results[k].score = 0}
    ELSE {k \in DOMAIN results : results[k].scores.overall < PassThreshold}

C10_SecondRun ==
    route = LS =>
        /\ \A k \in CallsOf("generate") :
            /\ calls[k].run = 1
            /\ \A j \in 1..(k - 1) : calls[j].op = "generate" /\ calls[j].svc # calls[k].svc
        /\ run = 2 =>
            /\ CallsOf("optimize") # {}
            /\ Failing # {}
            /\ Len(results) = Len(testCases)
        /\ Len(optResults) <= Len(testCases)
        /\ \A i \in DOMAIN optResults :
            /\ optResults[i].input = testCases[i].input
            /\ optResults[i].input = results[i].input
        /\ \A k \in CallsOf("complete") :
            calls[k].run = 2 =>
                /\ calls[k].idx < Len(testCases)
                /\ calls[k].arg = Render(proposal.prompt, testCases[calls[k].idx + 1].input)
                /\ \A j \in CallsOf("complete") :
                        (calls[j].run = 2 /\ j < k) => calls[j].idx <= calls[k].idx
        /\ (EndedWith("complete") /\ CallsOf("optimize") # {}) =>
            /\ Len(optResults) = Len(testCases)
            /\ evaluation.optimizedPrompt = proposal.prompt

\* the step part of C10: once generation is over the dataset never changes
C10_DatasetFrame ==
    (route = LS /\ pc \notin {"start", "generate", "generate_fallback"}) =>
        testCases' = testCases

C11_OptimizedResultsDelivered ==
    (route = LS /\ EndedWith("complete") /\ optResults # <<>>) =>
        /\ evaluation.originalResults = results
        /\ "optimizedResults" \in DOMAIN evaluation
        /\ evaluation.optimizedResults = optResults

\* a result of the multi-dimension pipeline whose overall is below 0.8
BelowThreshold(r) == r.scores.overall < PassThreshold

\* the multi-dimension pipeline is past the computation of its failing set
FailingSetKnown == route = BT /\ (pc \in {"optimize", "finish"} \/ EndedWith("complete"))

FailedResultsKnown ==
    route = LS /\ (pc \in {"failure_dataset", "optimize", "finish"} \/ run = 2
                   \/ EndedWith("complete"))

\* C13: in the rubric pipeline the pass threshold is 1: every result whose
\* score is below 1 is in the failing set, every result outside the failing
\* set has score 1, and the failures count of the complete record is the
\* number of results with a score other than 1.
C13_BinaryThresholdIsOne ==
    FailedResultsKnown =>
        /\ \A i \in DOMAIN results :
            /\ (results[i].score >= 0 /\ results[i].score < One) => i \in failed
            /\ i \notin failed => results[i].score = One
        /\ EndedWith("complete") =>
            evaluation.metrics.failures =
                Cardinality({i \in DOMAIN results : results[i].score # One})

\* C15: every verdict judgeWithClaude returns has score 0 or 1, and score 1
\* exactly when every entry of rubricResults has passed.
C15_VerdictIsBinary ==
    route = LS =>
        \A r \in {1, 2} : \A i \in DOMAIN ResultsOf(r) :
            /\ ResultsOf(r)[i].score \in {0, One}
            /\ ResultsOf(r)[i].score = One <=> ResultsOf(r)[i].allPassed

Verbatim(template, input) ==
    Flatten([k \in DOMAIN template |->
        IF template[k] = PH THEN input ELSE <<template[k]>>])

\* C16: for an input that does not contain the placeholder, the rendered
\* prompt sent to the completion provider is the template with every
\* placeholder replaced by the input verbatim, so its length is that of the
\* template plus (length of the input - 1) per placeholder (the placeholder
\* is one token).
C16_RenderVerbatim ==
    route \in Streaming =>
        \A k \in CallsOf("complete") :
            LET T == IF calls[k].run = 1 THEN req.prompt.text ELSE proposal.prompt
                I == testCases[calls[k].idx + 1].input
                n == Cardinality({j \in DOMAIN T : T[j] = PH})
            IN  (\A j \in DOMAIN I : I[j] # PH) =>
                    /\ calls[k].arg = Verbatim(T, I)
                    /\ Len(calls[k].arg) = Len(T) + n * (Len(I) - 1)

\* test-case generation has returned a dataset
GenerationSucceeded ==
    \E k \in DOMAIN logs :
        logs[k].phase \in {"Dataset generated", "Dataset generation complete"}

\* C17: whenever test-case generation succeeds, the dataset has exactly the
\* number of elements the caller asked for, whatever array the response held.
C17_ExactlyNTestCases ==
    (route \in Streaming /\ GenerationSucceeded) =>
        Len(testCases) = RequestedCount(route)

\* a request of the optimization pipeline that has prompt, goal and
\* promptName but no rubric, in an environment with every credential
NoRubricRequest ==
    /\ route = LS
    /\ req.prompt.kind = "string" /\ req.goal /\ req.promptName /\ ~req.rubric
    /\ env.gemini /\ env.langsmith /\ env.anthropic

\* C18: the rubric is optional.  A request without rubric passes validation
\* and goes through test-case generation: as long as no service has given an
\* off-nominal answer the handler does not throw, the generator is called
\* before anything else happens, and the stream does not end with an error.
C18_RubricOptional ==
    (NoRubricRequest /\ faults = 0) =>
        /\ pc # "catch"
        /\ ~EndedWith("error")
        /\ pc \notin {"start", "generate"} => CallsOf("generate") # {}

\* the log entries of the records of the stream, in order
RECURSIVE LogsIn(_)
LogsIn(recs) ==
    IF recs = <<>> THEN <<>>
    ELSE (IF Head(recs).type = "log" THEN <<Head(recs).log>> ELSE <<>>) \o LogsIn(Tail(recs))

\* C19: when the page has finished reading a stream that ended with an
\* error record, it has shown the user the error message of that record,
\* its displayed log holds every log entry received before the error, it
\* has set no result and has processed no record after the terminal one;
\* and it processes no record after a complete record either.
C19_ConsumerStopsOnError ==
    (route \in Streaming /\ ui.pc = "finished") =>
        /\ ui.after = 0
        /\ ui.shown = LogsIn(stream)
        /\ EndedWith("complete") => ui.result /\ ui.alerts = <<>>
        /\ EndedWith("error") =>
            /\ ~ui.result
            /\ \E i \in DOMAIN ui.alerts :
                    ui.alerts[i] \in {Last(stream).error, Last(stream).details}

\* C20: every invocation of a streamed pipeline eventually ends its stream
\* with a complete or an error record, even when a provider call never
\* returns (each call being bounded by a timeout).
C20_StreamEventuallyEnds ==
    <>(route \in Streaming => (pc = "done" /\ Terminals # {}))

\* the pass threshold the documentation gives for Dataset Tests, 70%
DatasetPassThreshold == 70

\* C21: in the Dataset Tests route every result is passed exactly when its
\* score reaches the 70% threshold, and the counters count a test as passed
\* exactly then.
C21_PassedIffScoreReachesThreshold ==
    route = PT =>
        /\ \A i \in DOMAIN results :
            results[i].passed <=> results[i].score >= DatasetPassThreshold
        /\ tally.passedTests =
                Cardinality({i \in DOMAIN results : results[i].score >= DatasetPassThreshold})

\* C22: test-case generation is not retried.  The secondary provider is
\* asked to generate only after the primary call failed at provider level;
\* after a primary answer that arrived (with or without a parsable array) the
\* secondary provider is not called.
C22_GenerationFallbackOnlyOnProviderFailure ==
    route \in Streaming =>
        \A k \in CallsOf("generate") :
            calls[k].svc = "groq" =>
                /\ k > 1
                /\ calls[k - 1].op = "generate"
                /\ calls[k - 1].svc = "gemini"
                /\ ~calls[k - 1].ok

\* C23: test-case generation succeeds only with an array whose every element
\* has an input: once the dataset-generated event has been emitted, or a
\* test case has been executed, every element of the dataset has an input.
C23_DatasetElementsHaveInput ==
    (route \in Streaming /\ (GenerationSucceeded \/ CallsOf("complete") # {})) =>
        \A i \in DOMAIN testCases : testCases[i].hasInput

\* a dimension judgment that fails: the provider call fails, or the answer
\* carries no text or a text with neither "0" nor "1" in it
DimensionJudgeFailure(a) ==
    \/ ~a.ok
    \/ ~a.hasText
    \/ \A i \in DOMAIN a.text : a.text[i] \notin {"0", "1"}

\* the dimension calls made for the test case at position i (0-based)
DimensionCalls(op, i) == {k \in CallsOf(op) : calls[k].idx = i}

\* C24: a failed dimension judgment scores 0 for its dimension and nothing
\* else happens: right after it the evaluation of the same test case goes on
\* with the next dimension (the handler is not in its catch block), the test
\* case gets its result, all dimensions of the test case are judged, and the
\* result carries overall = (sum of the four) / 4.
C24_DimensionFailureOnlyDegrades ==
    route = BT =>
        /\ \A a \in YesNoAnswers :
            DimensionJudgeFailure(a) => LastDigitScore(a) = 0 /\ ExactScore(a) = 0
        /\ \A k \in DOMAIN calls :
            (calls[k].op \in {"factuality", "battle", "tone"} /\ ~calls[k].ok) =>
                LET i == calls[k].idx
                IN  /\ idx = i =>
                        /\ pc \in {"battle", "tone"}
                        /\ k = Len(calls) =>
                            pc = (IF calls[k].op = "factuality" THEN "battle" ELSE "tone")
                        /\ err = ""
                        /\ scores[calls[k].op] = 0
                    /\ idx > i => Len(results) > i
                    /\ Len(results) > i =>
                        LET sc == results[i + 1].scores
                        IN  /\ sc[calls[k].op] = 0
                            /\ sc.overall =
                                (sc.factuality + sc.battle + sc.jsonValidity + sc.tone) \div 4
                            /\ DimensionCalls("factuality", i) # {}
                            /\ DimensionCalls("battle", i) # {}
                            /\ testCases[i + 1].expectedTone =>
                                    DimensionCalls("tone", i) # {}

\* C24 witness: a completed multi-dimension run in which the factuality call
\* of a test case failed while its battle judgment said yes: the result has
\* factuality 0, battle 1 and overall 0.75.
C24_Witness ==
    /\ route = BT
    /\ EndedWith("complete")
    /\ \E k \in CallsOf("factuality") :
        /\ ~calls[k].ok
        /\ results[calls[k].idx + 1].scores.factuality = 0
        /\ results[calls[k].idx + 1].scores.battle = One
        /\ results[calls[k].idx + 1].scores.overall = 75

IsPrefix(a, b) == Len(a) <= Len(b) /\ SubSeq(b, 1, Len(a)) = a

\* the log entries that belong to a test case (`running` and `completed`)
IsTestLog(l) == l.i > 0

\* an external call made inside the loops over the test cases
IsLoopCall(c) == c.op \in {"complete", "judge", "factuality", "battle", "tone", "trace"}

\* the test-case events of the log
TestLogs == SelectSeq(logs, IsTestLog)

\* the state part of C26: where the handler stands within an iteration, the
\* call it has just made is the one that comes before in the iteration
C26_InOrder ==
    route \in Streaming =>
        /\ idx <= Len(testCases)
        /\ IF run = 1
           THEN /\ Len(results) \in {idx, idx + 1}
                /\ Len(results) = idx + 1 => pc = "trace"
                /\ optResults = <<>>
           ELSE /\ Len(results) = Len(testCases)
                /\ Len(optResults) = idx
        /\ \A i \in DOMAIN results : results[i].input = testCases[i].input
        /\ \A i \in DOMAIN optResults : optResults[i].input = testCases[i].input
        /\ (pc = "exec" /\ run = 1) =>
                Last(logs).i = idx + 1 /\ Last(logs).status = "running"
        /\ pc \in {"exec_fallback", "judge", "battle", "tone", "trace"} =>
            /\ Last(calls).run = run
            /\ Last(calls).idx = idx
            /\ Last(calls).op =
                    (IF pc \in {"exec_fallback", "judge"} THEN "complete"
                     ELSE IF pc = "battle" THEN "factuality"
                     ELSE IF pc = "tone" THEN "battle"
                     ELSE "judge")
            /\ pc = "exec_fallback" => ~Last(calls).ok
            /\ pc \in {"judge", "trace"} => Last(calls).ok

\* the step part of C26: what one step of the handler may add
C26_OneAtATime ==
    route \in Streaming =>
        LET called == Len(calls') > Len(calls)
        IN  /\ IsPrefix(calls, calls') /\ Len(calls') <= Len(calls) + 1
            /\ IsPrefix(results, results') /\ Len(results') <= Len(results) + 1
            /\ IsPrefix(optResults, optResults') /\ Len(optResults') <= Len(optResults) + 1
            /\ (called /\ IsLoopCall(Last(calls'))) =>
                /\ Last(calls').run = run
                /\ Last(calls').idx = idx
                /\ idx < Len(testCases)
                /\ run = 1 => Last(logs).i = idx + 1 /\ Last(logs).status = "running"
            /\ (results' # results \/ optResults' # optResults) =>
                LET r == IF run = 1 THEN Last(results') ELSE Last(optResults')
                IN  /\ r.input = testCases[idx + 1].input
                    /\ r.output = output
                    /\ called
                    /\ Last(calls').op \in {"judge", "battle", "tone"}
                    /\ Last(calls').idx = idx
            /\ \A k \in (Len(logs) + 1)..Len(logs') :
                logs'[k].i > 0 =>
                    /\ logs'[k].i = idx + 1
                    /\ run = 1
                    /\ IF logs'[k].status = "running"
                       THEN pc = "loop" /\ Len(results) = idx /\ ~called /\ idx' = idx
                       ELSE /\ logs'[k].status = "completed"
                            /\ idx' = idx + 1
                            /\ Len(results') = idx + 1
            /\ idx' # idx =>
                \/ /\ idx' = idx + 1
                   /\ run' = run
                   /\ Len(IF run = 1 THEN results' ELSE optResults') = idx'
                   /\ run = 1 =>
                        /\ Len(logs') > Len(logs)
                        /\ Last(logs').i = idx'
                        /\ Last(logs').status = "completed"
                \/ /\ run = 1 /\ run' = 2
                   /\ idx = Len(testCases) /\ idx' = 0

\* C26: test cases are processed one at a time in the order of the dataset.
\* A step of the handler completes at most one external call.  `running i`
\* is emitted when exactly i - 1 test cases are finished and no call of test
\* case i has been made; every call of the loop is made for the test case
\* that is running, after its `running` event; the judge call follows the
\* successful completion of the same test case (battle follows factuality,
\* tone follows battle, the trace follows the judge); the result is
\* appended when the last judge call of its test case returns and belongs
\* to that test case; `completed i` is emitted with result i in place, and
\* only then does the next test case start; results[k] belongs to
\* testCases[k] at every moment.
C26_OneTestCaseAtATime == [](C26_InOrder) /\ [][C26_OneAtATime]_vars

\* C26 witness: a completed run over two test cases: four test-case events
\* and two results.
C26_Witness ==
    /\ route \in Streaming
    /\ EndedWith("complete")
    /\ Len(testCases) = 2
    /\ Len(TestLogs) = 4
    /\ Len(results) = 2
    /\ results[1].input # results[2].input

IsLogRecord(rec) == rec.type = "log"

\* the handler went past the checks of the request and of the keys
PastValidation == route \in Streaming /\ pc \notin {"start"} /\ ValidRequest /\ MissingCredential = ""

\* the state part of C27
C27_LogOrdered ==
    route \in Streaming =>
        LET sent == SelectSeq(stream, IsLogRecord)
        IN  /\ \A k \in DOMAIN logs :
                k > 1 => logs[k - 1].timestamp <= logs[k].timestamp
            /\ Len(sent) = Len(logs)
            /\ \A k \in DOMAIN sent : sent[k].log = logs[k]
            /\ (PastValidation /\ pc = "done") =>
                /\ Last(stream).type \in {"complete", "error"}
                /\ Last(stream).hasLogs
                /\ Last(stream).logs = logs
                /\ \A k \in DOMAIN sent : Last(stream).logs[k] = sent[k].log

\* the step part of C27: a step only appends, to the log and to the stream
C27_AppendOnly == IsPrefix(logs, logs') /\ IsPrefix(stream, stream')

\* C27: the event log is append-only and ordered.  Every step leaves the
\* entries already in the log (and the records already in the stream) as
\* they are and only appends; timestamps do not decrease along the log; the
\* log records of the stream are the entries of the log in the same order;
\* and the terminal record of a pipeline that got past validation carries in
\* its logs field every log entry sent before it.
C27_LogAppendOnlyOrdered == [](C27_LogOrdered) /\ [][C27_AppendOnly]_vars

\* C27 witness: a pipeline that ended in its catch block after test cases
\* were processed: the error record carries the whole log, whose timestamps
\* differ between the first and the last entry.
C27_Witness ==
    /\ route \in Streaming
    /\ EndedWith("error")
    /\ PastValidation
    /\ results # <<>>
    /\ Last(stream).logs = logs
    /\ Len(logs) >= 6
    /\ logs[1].timestamp < Last(logs).timestamp

\* C28: whatever list the generator returned, the empty list included, the
\* rates of the final result are numbers between 0 and 100 (rates are kept
\* in tenths of a percent, the average score of Dataset Tests in tenths).
C28_RatesWellDefined ==
    evaluation.sent =>
        /\ route = LS => evaluation.metrics.originalPassRate \in 0..1000
        /\ route = BT =>
            /\ evaluation.summary.success_rate \in 0..1000
            /\ evaluation.summary.average_score \in 0..1000
        /\ route = PT =>
            /\ evaluation.summary.success_rate \in 0..1000
            /\ evaluation.summary.average_score \in 0..1000

\* the answer a recorded call received
AnswerOf(k) == [ok |-> calls[k].ok, hasText |-> calls[k].text # <<>>, text |-> calls[k].text]

\* the calls of one kind made for the dataset entry at position i (0-based)
CallsFor(op, i) == {k \in CallsOf(op) : calls[k].idx = i}

\* C29: Dataset Tests.  A test case whose completion throws gets exactly one
\* failed result (passed = false, score 0) and the loop goes on; a test case
\* whose judgment fails gets one result with passed = false and score 0 too;
\* results holds one entry per processed dataset entry, in dataset order, and
\* at the end one per dataset entry; passed + failed assertions = number of
\* results, passed_tests = passed_assertions = number of passed results; the
\* tracing sink is called only when its credential is configured, and what
\* it answers changes no result and no counter.
C29_DatasetTestsOneResultPerEntry ==
    route = PT =>
        /\ Len(results) = idx
        /\ idx <= Len(testCases)
        /\ \A i \in DOMAIN results :
            LET cs == CallsFor("complete", i - 1)
                js == CallsFor("judge", i - 1)
                ts == CallsFor("createRun", i - 1)
            IN  /\ results[i].input = testCases[i]
                /\ Cardinality(cs) = 1
                /\ \A c \in cs :
                    IF ~calls[c].ok
                    THEN /\ ~results[i].passed
                         /\ results[i].score = 0
                         /\ results[i].output = <<"Error running test">>
                         /\ js = {} /\ ts = {}
                    ELSE /\ results[i].output = calls[c].text
                         /\ Cardinality(js) = 1
                         /\ Cardinality(ts) = (IF env.langsmith THEN 1 ELSE 0)
                         /\ \A j \in js :
                            LET e == EvaluateResult(AnswerOf(j))
                            IN  /\ results[i].passed = e.passed
                                /\ results[i].score = e.score
                                /\ results[i].feedback = e.feedback
                                /\ ~calls[j].ok =>
                                        ~results[i].passed /\ results[i].score = 0
        /\ tally.passedAssertions + tally.failedAssertions = Len(results)
        /\ tally.passedTests = tally.passedAssertions
        /\ tally.passedAssertions = Cardinality({i \in DOMAIN results : results[i].passed})
        /\ ~env.langsmith => CallsOf("createRun") = {}
        /\ http = 200 =>
            /\ Len(results) = Len(testCases)
            /\ evaluation.results = results
            /\ evaluation.summary.total_tests = Len(testCases)
            /\ evaluation.stats.passed_assertions + evaluation.stats.failed_assertions
                    = evaluation.summary.total_tests
            /\ evaluation.stats.total_assertions = evaluation.summary.total_tests
            /\ evaluation.summary.passed_tests = evaluation.stats.passed_assertions
            /\ evaluation.summary.success_rate \in 0..1000

\* C29 witness: a Dataset Tests run that answered 200 after the completion
\* of one test case threw and the tracing sink failed for another one, with
\* a passed test case after the failed one.
C29_Witness ==
    /\ route = PT
    /\ http = 200
    /\ env.langsmith
    /\ \E i \in DOMAIN results :
        /\ results[i].output = <<"Error running test">>
        /\ \E j \in DOMAIN results : j > i /\ results[j].passed
    /\ \E k \in CallsOf("createRun") : ~calls[k].ok
    /\ evaluation.stats.failed_assertions = 1

\* what the reader has handled: the log entries shown, the alerts, whether
\* a result was set, how many records were handled
Handled(c) ==
    [read |-> c.read, shown |-> c.shown, alerts |-> c.alerts, result |-> c.result,
     terminal |-> c.terminal, after |-> c.after]

\* the records whose line is complete (its newline included) within the first
\* n pieces of the body: a record takes six pieces, the fifth is the newline
\* that ends its line
CompleteRecords(n) == SubSeq(stream, 1, (n + 1) \div 6)

\* C30: what the page reader has handled depends on the text it has been
\* given only, not on how the text was cut into chunks: at every moment it
\* is what handling the complete records of that text one by one, in order,
\* yields (each once, a record cut by a chunk boundary included); the
\* reader leaves its function early exactly when that handling leaves it;
\* and while it reads, its buffer holds the text after the last newline.
C30_ChunkingDoesNotMatter ==
    LET whole == Lines(FreshPage, CompleteRecords(ui.fed))
        after == Lines(FreshPage, stream)
    IN  /\ Handled(ui) = Handled(whole)
        /\ whole.pc = "finished" => ui.pc = "finished"
        /\ (ui.pc = "reading" /\ ui.fed % 6 \in {0, 5}) => ui.buffer = <<>>
        /\ (ui.pc = "reading" /\ ui.fed % 6 \in 1..4) =>
                ui.buffer = SubSeq(Encode(stream), ui.fed - (ui.fed % 6) + 1, ui.fed)
        /\ (ui.pc = "finished" /\ after.pc # "finished") =>
                /\ ui.fed = Len(Encode(stream))
                /\ Handled(ui) = Handled(after)
                /\ ui.read = Len(stream)

\* C30 witness: in a body of three records a chunk ended in the middle of
\* the JSON text of a record: the start of its line is in the buffer while
\* an earlier log record has been handled and shown.
C30_Witness ==
    /\ Len(stream) = 3
    /\ ui.pc = "reading"
    /\ ui.read >= 1
    /\ Len(ui.buffer) = 3
    /\ ui.buffer[3].c = "json1"
    /\ ui.shown # <<>>

====
